---- MODULE Spec2Model ----
\* Model of the range-aware parallel downloader of src/src/web.rs:
\* BufferPool, optimal_thread_count, balanced_chunks, validate_file,
\* download_file and download_chunk.
EXTENDS Integers, Sequences, FiniteSets, TLC

\* ------------------------------------------------------------------ bounds
\* Largest Content-Length the probe reports in the model.
MaxTotal == 2
\* Largest requested_threads a caller passes.
MaxThreads == 2
\* Largest rayon::current_num_threads() of a modelled host.
MaxCpu == 2
\* Largest pool_size given to BufferPool::new.
MaxPool == 1
\* Largest buffer_size given to BufferPool::new.
MaxBufSize == 1
\* Largest inputs of the planner harness.
PlanMaxTotal == 9
PlanMaxThreads == 4
PlanMaxCpu == 4
\* Largest inputs of the thread-budget harness; sizes go up to SelMaxUnits * 10 MiB.
SelMaxUnits == 3
SelMaxThreads == 4
SelMaxCpu == 3
\* Largest Content-Length, in units of 10 MiB, and largest requested_threads of
\* the downloads of real size.
LargeMaxUnits == 2
LargeMaxThreads == 4
\* Longest URL path, in characters, given to extract_filename.
NameMaxLen == 3
\* The BufferPool on its own: largest pool_size and buffer_size, number of
\* threads that call get and put, and number of buffers ever allocated.
PoolMaxCapacity == 2
PoolMaxBufSize == 2
PoolWorkers == 2
PoolMaxAllocs == 3
\* Largest Content-Length of the two concurrent downloads.
PairMaxTotal == 2
\* The C interface: allocations ever made, largest threads_used a download
\* reports, longest byte body of a POST response.
FfiMaxAllocs == 4
FfiMaxThreads == 2
FfiMaxBody == 2
\* ThreadPool: most workers, most jobs submitted.
TpMaxSize == 2
TpMaxJobs == 2
\* DoublyLinkedList: longest list, number of distinct element values.
ListMaxLen == 3
ListMaxValue == 2

\* ------------------------------------------------------- program constants
MIN_CHUNK_SIZE == 1
MAX_RETRIES == 3
TenMiB == 10485760
\* threads_used reported by the single-stream return of download_file.
SingleStreamThreads == 1

\* ------------------------------------------------------------ integer helpers
Min(a, b) == IF a <= b THEN a ELSE b
Max(a, b) == IF a >= b THEN a ELSE b
\* usize::clamp / Ord::clamp
Clamp(x, lo, hi) == IF x < lo THEN lo ELSE IF x > hi THEN hi ELSE x
\* u64::saturating_sub
SaturatingSub(a, b) == IF a >= b THEN a - b ELSE 0

RECURSIVE SumSpans(_)
SumSpans(s) ==
    IF s = << >> THEN 0
    ELSE (s[1][2] - s[1][1] + 1) + SumSpans(Tail(s))

\* ------------------------------------------------------ thread budget
\* Mutant of optimal_thread_count: the smallest of the three caps, with no lower bound.
optimal_thread_count_unclamped(requested, total, cpu_cores) ==
    LET size_based == total \div TenMiB
    IN  Min(requested, Min(cpu_cores, size_based))

optimal_thread_count(requested, total, cpu_cores) ==
    LET size_based == total \div TenMiB
    IN  Clamp(requested, 1, Max(Min(cpu_cores, size_based), 1))

\* Mutant of select_threads: mandatory_use is ignored.
select_threads_ignore_force(requested, total, force, cpu_cores) ==
    optimal_thread_count(requested, total, cpu_cores)

\* The match on mandatory_use in download_file.
select_threads(requested, total, force, cpu_cores) ==
    IF force THEN requested ELSE optimal_thread_count(requested, total, cpu_cores)

\* ------------------------------------------------------ chunk planner
\* actual_threads of balanced_chunks.
PlanThreads(total, requested_threads, cpu_cores) ==
    LET max_reasonable == total \div Max(MIN_CHUNK_SIZE, 1)
    IN  Min(Clamp(requested_threads, 1, Max(max_reasonable, 1)), cpu_cores)

\* Mutant of ChunkSize: every chunk, the last included, gets remaining / n.
ChunkSizeFixedDivisor(i, n, remaining) ==
    Min(Max(remaining \div n, MIN_CHUNK_SIZE), remaining)

\* Mutant of ChunkSize: the average is rounded up.
ChunkSizeRoundUp(i, n, remaining) ==
    IF i = n - 1 THEN remaining
    ELSE LET avg == (remaining + (n - i) - 1) \div (n - i)
         IN  Min(Max(avg, MIN_CHUNK_SIZE), remaining)

\* chunk_size of iteration i (0-based) of the loop of balanced_chunks.
ChunkSize(i, n, remaining) ==
    IF i = n - 1 THEN remaining
    ELSE LET avg == remaining \div (n - i)
         IN  Min(Max(avg, MIN_CHUNK_SIZE), remaining)

\* The loop of balanced_chunks from iteration i on.
RECURSIVE ChunkLoop(_, _, _, _)
ChunkLoop(i, n, start, remaining) ==
    IF i >= n THEN << >>
    ELSE LET chunk_size == ChunkSize(i, n, remaining)
             end        == start + SaturatingSub(chunk_size, 1)
             rest       == SaturatingSub(remaining, chunk_size)
         IN  IF rest = 0 THEN << <<start, end>> >>
             ELSE << <<start, end>> >> \o ChunkLoop(i + 1, n, start + chunk_size, rest)

balanced_chunks(total, requested_threads, cpu_cores) ==
    ChunkLoop(0, PlanThreads(total, requested_threads, cpu_cores), 0, total)

\* ------------------------------------------------------------ paths
\* A file name is the sequence of its dot-separated components:
\* <<"a", "txt">> is a.txt, <<"a">> is a (no extension).
DOWNLOAD == "download"

\* Path::with_extension: replaces the extension, or adds one when there is none.
with_extension(path, ext) ==
    IF Len(path) > 1 THEN [path EXCEPT ![Len(path)] = ext]
    ELSE Append(path, ext)

\* temp_path of download_file.
TempPath(path) == with_extension(path, DOWNLOAD)

Destinations == { <<"a">>, <<"a", "txt">>, <<"a", "download">> }
AllPaths == Destinations \cup { TempPath(p) : p \in Destinations }

\* A file: its length and how many of its leading bytes a plain GET body filled.
NoFile == [exists |-> FALSE, len |-> 0, copied |-> 0]

\* std::fs::rename(from, to): `to` names the file `from` named; `from` is gone.
rename(files, from, to) ==
    IF from = to THEN files
    ELSE [files EXCEPT ![to] = files[from], ![from] = NoFile]

\* Mutant of validate_file: only the metadata call can fail.
validate_file_exists_only(files, path, expected) ==
    IF ~files[path].exists THEN "Io" ELSE "Ok"

\* validate_file: metadata(path)?.len() against expected.
validate_file(files, path, expected) ==
    IF ~files[path].exists THEN "Io"
    ELSE IF files[path].len # expected THEN "ValidationFailed"
    ELSE "Ok"

\* ------------------------------------------------------------ buffer pool
\* A buffer is modelled by its length; the pool is the ArrayQueue's content.
\* Mutant of BufferPool_get: an empty pool is reported as an error.
BufferPool_get_or_empty(pool, size) ==
    IF pool # << >> THEN [buf |-> Head(pool), pool |-> Tail(pool), res |-> "Ok"]
    ELSE [buf |-> 0, pool |-> pool, res |-> "BufferPoolEmpty"]

BufferPool_get(pool, size) ==
    IF pool # << >> THEN [buf |-> Head(pool), pool |-> Tail(pool), res |-> "Ok"]
    ELSE [buf |-> size, pool |-> pool, res |-> "Ok"]

\* ArrayQueue::push fails when the queue holds `capacity` elements.
BufferPool_put(pool, capacity, size, buf) ==
    LET cleared == size
    IN  IF Len(pool) < capacity
        THEN [pool |-> Append(pool, cleared), res |-> "Ok"]
        ELSE [pool |-> pool, res |-> "BufferPoolFull"]

\* ------------------------------------------------------------ chunk worker
\* The read loop of download_chunk: `left` body bytes remain, `offset` bytes are
\* in the slice of length `span`; each read returns at most `size` bytes and the
\* copy panics when it would pass the end of the slice.
\* Mutant of ReadLoop: the copy is not checked against the end of the slice.
RECURSIVE ReadLoopUnchecked(_, _, _, _)
ReadLoopUnchecked(offset, left, span, size) ==
    LET read == Min(left, size)
    IN  IF read = 0 THEN [offset |-> offset, panic |-> FALSE]
        ELSE ReadLoopUnchecked(offset + read, left - read, span, size)

RECURSIVE ReadLoop(_, _, _, _)
ReadLoop(offset, left, span, size) ==
    LET read == Min(left, size)
    IN  IF read = 0 THEN [offset |-> offset, panic |-> FALSE]
        ELSE IF offset + read > span THEN [offset |-> offset, panic |-> TRUE]
        ELSE ReadLoop(offset + read, left - read, span, size)

Span(chunk) == chunk[2] - chunk[1] + 1

\* Lines 435-442: the slices split off the map in plan order, as the offsets
\* <<first, last>> of the map they cover; `at` is where remaining_mem_map starts.
RECURSIVE SplitSlices(_, _)
SplitSlices(plan, at) ==
    IF plan = << >> THEN << >>
    ELSE LET chunk_size == Span(Head(plan))
         IN  << <<at, at + chunk_size - 1>> >> \o SplitSlices(Tail(plan), at + chunk_size)

Slices(plan) == SplitSlices(plan, 0)

\* What a ranged response can be: the whole span, one byte short, one byte
\* long, or a connection that drops while the body is read.
Bodies == {"complete", "truncated", "overlong", "dropped"}
BodyLen(body, span) ==
    CASE body = "complete"  -> span
      [] body = "truncated" -> span - 1
      [] body = "overlong"  -> span + 1
      [] body = "dropped"   -> span - 1

ChunkExhausted == "Server: Failed to download chunk after multiple attempts"
MissingLength == "Server: Missing Content-Length"

\* The content of a slice: a set of segments [lo, hi, attempt, shift]; the byte at
\* slice position p of a segment is byte p - shift of the body of that attempt.
\* Positions no segment covers hold the zeros of set_len.
SegmentsMinus(segments, lo, hi) ==
    UNION { (IF s.lo < lo THEN {[s EXCEPT !.hi = Min(s.hi, lo - 1)]} ELSE {})
            \cup (IF s.hi > hi THEN {[s EXCEPT !.lo = Max(s.lo, hi + 1)]} ELSE {})
            : s \in segments }

\* Line 492 over one attempt: body bytes 0..n-1 copied to slice[start..start+n].
CopyBody(segments, start, n, attempt) ==
    IF n = 0 THEN segments
    ELSE SegmentsMinus(segments, start, start + n - 1)
         \cup {[lo |-> start, hi |-> start + n - 1, attempt |-> attempt, shift |-> start]}

\* Mutant of AttemptStart: an attempt goes on where the previous one stopped.
AttemptStartContinues(previous_offset) == previous_offset

\* Line 485: `let mut offset = 0` at the start of every attempt.
AttemptStart(previous_offset) == 0

\* filled: how many leading bytes of the worker's slice hold body bytes;
\* acquired, released: buffers taken from and handed to the pool; slice: content.
IdleWorker == [st |-> "idle", attempt |-> 0, gets |-> 0, offset |-> 0,
               buf |-> 0, err |-> "none", filled |-> 0,
               acquired |-> 0, released |-> 0, slice |-> {}]

\* ------------------------------------------------------------------ state
VARIABLES
    plan_in,            \* arguments of the last balanced_chunks call of the planner harness
    plan_out,           \* its result
    sel_in,             \* arguments of the last thread-budget calls of the budget harness
    sel_out,            \* their results
    name_in,            \* the parsed URL of the last extract_filename call
    name_out,           \* its result
    pool_q,             \* BufferPool.pool of the pool harness: the idle Vecs, each [id, len]
    pool_held,          \* the Vec each thread of the pool harness owns, or NoBuffer
    pool_next,          \* identity of the next Vec allocated by get
    pair_op,            \* two concurrent download_file calls: destination, temp path, size, position
    pair_fs,            \* the files of their directory
    pair_writers,       \* path -> the calls that created, resized or wrote the file
    c_heap,             \* allocations handed out by the C interface: live, freed, double frees
    c_download,         \* the caller's CDownloadResult and the last return value
    c_post,             \* the caller's CResPost and the last return value
    tp_pool,            \* the ThreadPool as its owner sees it: size, progress of drop
    tp_chan,            \* messages sent on the pool's channel and not yet received
    tp_workers,         \* worker id -> what its thread is doing
    tp_jobs,            \* the jobs submitted, with the receiver each submit returned
    dll,                \* the DoublyLinkedList: head, tail, len and the nodes on the heap
    dll_model,          \* the sequence the list stands for
    dll_ret,            \* the last operation, what it returned and what the sequence gives
    cpu_cores,          \* rayon::current_num_threads()
    requested_threads,  \* download_file argument
    mandatory_use,      \* download_file argument
    pool_size,          \* BufferPool::new argument
    buffer_size,        \* BufferPool::new argument
    head,               \* headers of the server's HEAD response
    original_path,      \* destination of download_file
    temp_path,          \* original_path.with_extension("download")
    fs,                 \* the files: path -> [exists, len]
    ops,                \* file operations applied so far: [op, path]
    pc,                 \* position of download_file
    supports_chunked,   \* Accept-Ranges: bytes seen by the probe
    total_size,         \* Content-Length seen by the probe
    buffer_pool,        \* idle buffers of the BufferPool
    actual_threads,     \* thread budget
    chunks,             \* the plan
    workers,            \* one download_chunk call per chunk
    full,               \* rayon's try_for_each has seen an Err
    unranged_gets,      \* plain GETs issued
    result              \* what download_file returned

poolvars == <<pool_q, pool_held, pool_next>>
pairvars == <<pair_op, pair_fs, pair_writers>>
ffivars == <<c_heap, c_download, c_post>>
tpvars == <<tp_pool, tp_chan, tp_workers, tp_jobs>>
listvars == <<dll, dll_model, dll_ret>>
othervars == <<tpvars, listvars>>
extvars == <<pairvars, ffivars, othervars>>
harness == <<sel_in, sel_out, name_in, name_out, poolvars, extvars>>
planvars == <<plan_in, plan_out, harness>>
inputs == <<cpu_cores, requested_threads, mandatory_use, pool_size, buffer_size,
            head, original_path>>
dlvars == <<temp_path, fs, ops, pc, supports_chunked, total_size, buffer_pool,
            actual_threads, chunks, workers, full, unranged_gets, result>>
vars == <<planvars, inputs, dlvars>>

NoResult == [kind |-> "none", threads_used |-> 0, err |-> "none"]

\* Accept-Ranges values a server sends; "absent" is no header.
AcceptRanges == {"absent", "bytes", "none", "Bytes"}

\* Content-Length headers: none, one that is no u64, or a number.
NoLength == [kind |-> "absent", value |-> 0]
BadLength == [kind |-> "garbage", value |-> 0]
Length(n) == [kind |-> "number", value |-> n]
ContentLengths(sizes) == {NoLength, BadLength} \cup { Length(n) : n \in sizes }

\* Mutant of SupportsChunked: the token is compared without regard to case.
SupportsChunkedIgnoreCase(accept_ranges) == accept_ranges \in {"bytes", "Bytes"}

\* Lines 387-390: .get(ACCEPT_RANGES).map_or(false, |v| v == "bytes").
SupportsChunked(accept_ranges) == accept_ranges = "bytes"

\* Mutant of ParseContentLength: a missing or unparsable length counts as 0.
ParseContentLengthOrZero(h) ==
    IF h.kind = "number" THEN [ok |-> TRUE, value |-> h.value]
    ELSE [ok |-> TRUE, value |-> 0]

\* Lines 391-396: the header parsed as u64, None when absent or unparsable.
ParseContentLength(h) ==
    IF h.kind = "number" THEN [ok |-> TRUE, value |-> h.value]
    ELSE [ok |-> FALSE, value |-> 0]

\* download_file has not started.
InitDownloadState ==
    /\ temp_path = << >>
    /\ fs = [p \in AllPaths |-> NoFile]
    /\ ops = {}
    /\ pc = "start"
    /\ supports_chunked = FALSE
    /\ total_size = 0
    /\ buffer_pool = << >>
    /\ actual_threads = 0
    /\ chunks = << >>
    /\ workers = << >>
    /\ full = FALSE
    /\ unranged_gets = 0
    /\ result = NoResult

\* The state download_file starts from, for every request of the bounds.
InitDownload ==
    /\ head \in [accept_ranges : AcceptRanges, content_length : ContentLengths(0..MaxTotal)]
    /\ cpu_cores \in 1..MaxCpu
    /\ requested_threads \in 1..MaxThreads
    /\ mandatory_use \in BOOLEAN
    /\ pool_size \in 1..MaxPool
    /\ buffer_size \in 1..MaxBufSize
    /\ original_path \in Destinations
    /\ InitDownloadState

\* ------------------------------------------------- download_file
Record(op, path) == [op |-> op, path |-> path]

\* An early return of download_file with Err(e).
Fail(e) ==
    /\ pc' = "failed"
    /\ result' = [kind |-> "err", threads_used |-> 0, err |-> e]

\* Lines 374-384: the destination is settled and the temp path derived from it.
Begin ==
    /\ pc = "start"
    /\ temp_path' = TempPath(original_path)
    /\ pc' = "probe"
    /\ UNCHANGED <<planvars, inputs, fs, ops, supports_chunked, total_size, buffer_pool,
                   actual_threads, chunks, workers, full, unranged_gets, result>>

\* Lines 386-396: the HEAD request and its two headers.
Probe ==
    /\ pc = "probe"
    /\ \/ /\ Fail("RequestError")
          /\ UNCHANGED <<supports_chunked, total_size>>
       \/ /\ supports_chunked' = SupportsChunked(head.accept_ranges)
          /\ LET parsed == ParseContentLength(head.content_length)
             IN  IF ~parsed.ok
                 THEN Fail(MissingLength) /\ UNCHANGED total_size
                 ELSE /\ total_size' = parsed.value
                      /\ pc' = "allocate"
                      /\ UNCHANGED result
    /\ UNCHANGED <<planvars, inputs, temp_path, fs, ops, buffer_pool, actual_threads,
                   chunks, workers, full, unranged_gets>>

\* Mutant of UseSingleStream: a forced thread count overrides the missing range support.
UseSingleStreamUnlessForced == ~supports_chunked /\ ~mandatory_use

\* The branch at line 407.
UseSingleStream == ~supports_chunked

\* Lines 398-405: create the temp file, set its length, map it.
\* Mapping a file of length 0 fails or yields an empty map, by the memmap2 version.
Allocate ==
    /\ pc = "allocate"
    /\ \/ /\ Fail("Io")
          /\ UNCHANGED <<fs, ops>>
       \/ /\ fs' = [fs EXCEPT ![temp_path] = [exists |-> TRUE, len |-> total_size, copied |-> 0]]
          /\ ops' = ops \cup {Record("create", temp_path), Record("set_len", temp_path)}
          /\ \/ /\ total_size = 0
                /\ Fail("Io")
             \/ /\ pc' = IF UseSingleStream THEN "single" ELSE "plan"
                /\ UNCHANGED result
    /\ UNCHANGED <<planvars, inputs, temp_path, supports_chunked, total_size, buffer_pool,
                   actual_threads, chunks, workers, full, unranged_gets>>

\* Lines 408-410: one plain GET copied into the temp file, opened without truncation.
SingleStreamCopy ==
    /\ pc = "single"
    /\ \/ /\ Fail("RequestError")
          /\ UNCHANGED <<fs, ops, unranged_gets>>
       \/ /\ unranged_gets' = unranged_gets + 1
          /\ \E body \in Bodies :
                LET n == Max(BodyLen(body, total_size), 0)
                IN  /\ fs' = [fs EXCEPT ![temp_path].len = Max(@, n),
                                         ![temp_path].copied = n]
                    /\ ops' = IF n > 0 THEN ops \cup {Record("write", temp_path)} ELSE ops
                    /\ IF body = "dropped"
                       THEN Fail("Io")
                       ELSE pc' = "single_verify" /\ UNCHANGED result
    /\ UNCHANGED <<planvars, inputs, temp_path, supports_chunked, total_size, buffer_pool,
                   actual_threads, chunks, workers, full>>

\* Lines 411-425: validate, rename, return threads_used = 1.
SingleStreamPublish ==
    /\ pc = "single_verify"
    /\ LET v == validate_file(fs, temp_path, total_size)
       IN  IF v # "Ok"
           THEN Fail(v) /\ UNCHANGED <<fs, ops>>
           ELSE /\ fs' = rename(fs, temp_path, original_path)
                /\ ops' = ops \cup {Record("rename", original_path)}
                /\ pc' = "done"
                /\ result' = [kind |-> "ok", threads_used |-> SingleStreamThreads,
                              err |-> "none"]
    /\ UNCHANGED <<planvars, inputs, temp_path, supports_chunked, total_size, buffer_pool,
                   actual_threads, chunks, workers, full, unranged_gets>>

\* Lines 428-442: thread budget, plan, and the split of the map into slices;
\* split_at_mut panics when a chunk is longer than what is left of the map.
Plan ==
    /\ pc = "plan"
    /\ LET budget == select_threads(requested_threads, total_size, mandatory_use, cpu_cores)
           plan   == balanced_chunks(total_size, budget, cpu_cores)
       IN  /\ actual_threads' = budget
           /\ chunks' = plan
           /\ IF SumSpans(plan) > total_size
              THEN /\ pc' = "panicked"
                   /\ result' = [kind |-> "panic", threads_used |-> 0, err |-> "split_at_mut"]
                   /\ UNCHANGED workers
              ELSE /\ pc' = "parallel"
                   /\ workers' = [i \in 1..Len(plan) |-> IdleWorker]
                   /\ UNCHANGED result
    /\ UNCHANGED <<planvars, inputs, temp_path, fs, ops, supports_chunked, total_size,
                   buffer_pool, full, unranged_gets>>

\* ------------------------------------------------- download_chunk
Terminal == {"ok", "err", "skipped", "panicked"}

\* Mutant of AttemptComplete: a body one byte short is accepted.
AttemptCompleteOrShort(chunk, offset) == offset >= Span(chunk) - 1

\* Line 498: the attempt copied the whole span.
AttemptComplete(chunk, offset) == Span(chunk) = offset

\* The for loop at line 478 has another iteration after `attempt`.
HasNextAttempt(attempt) == attempt + 1 < MAX_RETRIES

\* download_chunk of chunk i returns Err(e): try_for_each stops handing out items.
ChunkFailFrom(w, i, e) ==
    /\ workers' = [w EXCEPT ![i].st = "err", ![i].err = e, ![i].buf = 0]
    /\ full' = TRUE

ChunkFail(i, e) == ChunkFailFrom(workers, i, e)

\* rayon hands item i to the closure unless an Err has been seen.
ChunkStart(i) ==
    /\ pc = "parallel"
    /\ workers[i].st = "idle"
    /\ ~full
    /\ workers' = [workers EXCEPT ![i].st = "send"]
    /\ UNCHANGED <<planvars, inputs, temp_path, fs, ops, pc, supports_chunked, total_size,
                   buffer_pool, actual_threads, chunks, full, unranged_gets, result>>

\* rayon drops an item not yet started once an Err has been seen.
ChunkSkip(i) ==
    /\ pc = "parallel"
    /\ workers[i].st = "idle"
    /\ full
    /\ workers' = [workers EXCEPT ![i].st = "skipped"]
    /\ UNCHANGED <<planvars, inputs, temp_path, fs, ops, pc, supports_chunked, total_size,
                   buffer_pool, actual_threads, chunks, full, unranged_gets, result>>

\* Lines 479-482: the ranged GET; `?` returns a send error at once.
ChunkSend(i) ==
    /\ pc = "parallel"
    /\ workers[i].st = "send"
    /\ \/ /\ workers' = [workers EXCEPT ![i].st = "err", ![i].err = "RequestError",
                                        ![i].gets = @ + 1]
          /\ full' = TRUE
       \/ /\ workers' = [workers EXCEPT ![i].st = "get", ![i].gets = @ + 1]
          /\ UNCHANGED full
    /\ UNCHANGED <<planvars, inputs, temp_path, fs, ops, pc, supports_chunked, total_size,
                   buffer_pool, actual_threads, chunks, unranged_gets, result>>

\* Lines 484-485: buffer_pool.get()? and offset = 0.
ChunkGet(i) ==
    /\ pc = "parallel"
    /\ workers[i].st = "get"
    /\ LET g == BufferPool_get(buffer_pool, buffer_size)
       IN  /\ buffer_pool' = g.pool
           /\ IF g.res # "Ok"
              THEN ChunkFail(i, g.res)
              ELSE /\ workers' = [workers EXCEPT ![i].st = "read", ![i].buf = g.buf,
                                                 ![i].offset = AttemptStart(@),
                                                 ![i].acquired = @ + 1]
                   /\ UNCHANGED full
    /\ UNCHANGED <<planvars, inputs, temp_path, fs, ops, pc, supports_chunked, total_size,
                   actual_threads, chunks, unranged_gets, result>>

\* Lines 487-494: the read loop copies the body into the slice, which is part of
\* the map of the temp file; a read error returns at once and drops the buffer.
ChunkRead(i) ==
    /\ pc = "parallel"
    /\ workers[i].st = "read"
    /\ \E body \in Bodies :
        LET r == ReadLoop(workers[i].offset, BodyLen(body, Span(chunks[i])),
                          Span(chunks[i]), workers[i].buf)
            copied == CopyBody(workers[i].slice, workers[i].offset,
                               r.offset - workers[i].offset, workers[i].attempt)
        IN  /\ ops' = IF r.offset > workers[i].offset
                      THEN ops \cup {Record("write", temp_path)} ELSE ops
            /\ IF r.panic
               THEN /\ workers' = [workers EXCEPT ![i].st = "panicked", ![i].buf = 0,
                                                  ![i].offset = r.offset,
                                                  ![i].filled = Max(@, r.offset),
                                                  ![i].slice = copied]
                    /\ UNCHANGED full
               ELSE IF body = "dropped"
               THEN /\ workers' = [workers EXCEPT ![i].st = "err", ![i].err = "Io",
                                                  ![i].buf = 0, ![i].offset = r.offset,
                                                  ![i].filled = Max(@, r.offset),
                                                  ![i].slice = copied]
                    /\ full' = TRUE
               ELSE /\ workers' = [workers EXCEPT ![i].st = "put", ![i].offset = r.offset,
                                                  ![i].filled = Max(@, r.offset),
                                                  ![i].slice = copied]
                    /\ UNCHANGED full
    /\ UNCHANGED <<planvars, inputs, temp_path, fs, pc, supports_chunked, total_size,
                   buffer_pool, actual_threads, chunks, unranged_gets, result>>

\* Lines 496-509: buffer_pool.put(buffer)?, then the length test and the retry.
ChunkPut(i) ==
    /\ pc = "parallel"
    /\ workers[i].st = "put"
    /\ LET p == BufferPool_put(buffer_pool, pool_size, buffer_size, workers[i].buf)
           w == [workers EXCEPT ![i].released = @ + 1]
       IN  /\ buffer_pool' = p.pool
           /\ IF p.res # "Ok"
              THEN ChunkFailFrom(w, i, p.res)
              ELSE IF AttemptComplete(chunks[i], workers[i].offset)
              THEN /\ workers' = [w EXCEPT ![i].st = "ok", ![i].buf = 0]
                   /\ UNCHANGED full
              ELSE IF HasNextAttempt(workers[i].attempt)
              THEN /\ workers' = [w EXCEPT ![i].st = "send", ![i].buf = 0,
                                           ![i].attempt = @ + 1]
                   /\ UNCHANGED full
              ELSE ChunkFailFrom(w, i, ChunkExhausted)
    /\ UNCHANGED <<planvars, inputs, temp_path, fs, ops, pc, supports_chunked, total_size,
                   actual_threads, chunks, unranged_gets, result>>

\* ------------------------------------------------- the end of download_file
\* Mutant of AllWorkersDone: the first Err ends the wait.
FirstErrorWins ==
    \/ \E i \in DOMAIN workers : workers[i].st = "err"
    \/ \A i \in DOMAIN workers : workers[i].st \in Terminal

\* Mutant of AllWorkersDone: the wait ends once every item has been handed out.
AllWorkersStarted == \A i \in DOMAIN workers : workers[i].st # "idle"

\* Mutant of AllWorkersDone: the wait ends with the first worker that returns.
SomeWorkerDone == \E i \in DOMAIN workers : workers[i].st \in Terminal

\* try_for_each returns once no item is running or waiting.
AllWorkersDone == \A i \in DOMAIN workers : workers[i].st \in Terminal

\* Line 448: a panic of a worker is resumed in the caller; an Err is returned by `?`.
Join ==
    /\ pc = "parallel"
    /\ AllWorkersDone
    /\ IF \E i \in DOMAIN workers : workers[i].st = "panicked"
       THEN /\ pc' = "panicked"
            /\ result' = [kind |-> "panic", threads_used |-> 0, err |-> "copy_from_slice"]
       ELSE IF \E i \in DOMAIN workers : workers[i].st = "err"
       THEN \E i \in DOMAIN workers :
               /\ workers[i].st = "err"
               /\ Fail(workers[i].err)
       ELSE /\ pc' = "verify"
            /\ UNCHANGED result
    /\ UNCHANGED <<planvars, inputs, temp_path, fs, ops, supports_chunked, total_size,
                   buffer_pool, actual_threads, chunks, workers, full, unranged_gets>>

\* Lines 450-451: flush the map, then validate_file.
Verify ==
    /\ pc = "verify"
    /\ \/ Fail("Io") /\ UNCHANGED ops
       \/ /\ ops' = ops \cup {Record("flush", temp_path)}
          /\ LET v == validate_file(fs, temp_path, total_size)
             IN  IF v # "Ok" THEN Fail(v)
                 ELSE pc' = "publish" /\ UNCHANGED result
    /\ UNCHANGED <<planvars, inputs, temp_path, fs, supports_chunked, total_size,
                   buffer_pool, actual_threads, chunks, workers, full, unranged_gets>>

\* Lines 452-465: rename and return threads_used = actual_threads.
Publish ==
    /\ pc = "publish"
    /\ fs' = rename(fs, temp_path, original_path)
    /\ ops' = ops \cup {Record("rename", original_path)}
    /\ pc' = "done"
    /\ result' = [kind |-> "ok", threads_used |-> actual_threads, err |-> "none"]
    /\ UNCHANGED <<planvars, inputs, temp_path, supports_chunked, total_size,
                   buffer_pool, actual_threads, chunks, workers, full, unranged_gets>>

NoPlan == [total |-> 0, threads |-> 0, cpu |-> 0, called |-> FALSE]
NoSelect == [requested |-> 0, cpu |-> 0, force |-> FALSE, lo |-> 0, hi |-> 0,
             called |-> FALSE]
NoName == [parsed |-> FALSE, host |-> [some |-> FALSE, str |-> << >>], path |-> << >>,
           called |-> FALSE]

NoBuffer == [id |-> 0, len |-> 0]

PairDestinations == { <<"a">>, <<"a", "txt">>, <<"a", "bin">>, <<"b", "txt">> }
PairPaths == PairDestinations \cup { TempPath(p) : p \in PairDestinations }
NoCall == [dest |-> << >>, temp |-> << >>, size |-> 0, pc |-> "none"]

InitPairIdle ==
    /\ pair_op = <<NoCall, NoCall>>
    /\ pair_fs = [p \in PairPaths |-> NoFile]
    /\ pair_writers = [p \in PairPaths |-> {}]

\* No harness of web.rs has made a call.
InitWebHarness ==
    /\ pool_q = << >>
    /\ pool_held = [w \in 1..PoolWorkers |-> NoBuffer]
    /\ pool_next = 1
    /\ plan_in = NoPlan
    /\ plan_out = << >>
    /\ sel_in = NoSelect
    /\ sel_out = <<0, 0>>
    /\ name_in = NoName
    /\ name_out = << >>

\* A pointer is the identity of an allocation; Null is the null pointer.
Null == 0
NoHeap == [next |-> 1, live |-> {}, freed |-> {}, double_free |-> FALSE]
NoDownloadResult == [state |-> "none", ret |-> 0, ok |-> FALSE, threads |-> 0,
                     threads_used |-> 0, save_path |-> Null, file_name |-> Null,
                     error_msg |-> Null]
NoResPost == [state |-> "none", fn |-> "none", ret |-> 0, body_type |-> -1, body_text |-> Null,
              body_bytes |-> Null, body_len |-> 0, error_msg |-> Null]

InitFfiIdle ==
    /\ c_heap = NoHeap
    /\ c_download = NoDownloadResult
    /\ c_post = NoResPost

\* No pool has been made.
InitTpIdle ==
    /\ tp_pool = [state |-> "none", size |-> 0, sent |-> 0, joined |-> 0]
    /\ tp_chan = << >>
    /\ tp_workers = << >>
    /\ tp_jobs = << >>

\* DoublyLinkedList::new. nodes is the heap: address -> Node.
EmptyList == [head |-> Null, tail |-> Null, len |-> 0, nodes |-> << >>]

\* Option<T>, and a returned bool or count, as a sequence of at most one value.
None == << >>
Some(x) == <<x>>

InitListIdle ==
    /\ dll = EmptyList
    /\ dll_model = << >>
    /\ dll_ret = [op |-> "new", got |-> None, expected |-> None]

InitOtherIdle ==
    /\ InitTpIdle
    /\ InitListIdle

InitExtIdle ==
    /\ InitPairIdle
    /\ InitFfiIdle
    /\ InitOtherIdle

\* No harness has made a call.
InitHarness ==
    /\ InitWebHarness
    /\ InitExtIdle

Init ==
    /\ InitHarness
    /\ InitDownload

Next ==
    \/ Begin
    \/ Probe
    \/ Allocate
    \/ SingleStreamCopy
    \/ SingleStreamPublish
    \/ Plan
    \/ \E i \in DOMAIN workers : ChunkStart(i)
    \/ \E i \in DOMAIN workers : ChunkSkip(i)
    \/ \E i \in DOMAIN workers : ChunkSend(i)
    \/ \E i \in DOMAIN workers : ChunkGet(i)
    \/ \E i \in DOMAIN workers : ChunkRead(i)
    \/ \E i \in DOMAIN workers : ChunkPut(i)
    \/ Join
    \/ Verify
    \/ Publish

Spec == Init /\ [][Next]_vars

\* Every HTTP request and body read completes and every runnable rayon job is
\* run: some step is taken as long as one is possible.
SpecFair == Init /\ [][Next]_vars /\ WF_vars(Next)

\* ------------------------------------------------- planner specification
\* The harnesses leave download_file at its start, with one fixed request.
InitWebIdle ==
    /\ InitWebHarness
    /\ InitDownload
    /\ cpu_cores = 1
    /\ requested_threads = 1
    /\ mandatory_use = FALSE
    /\ pool_size = 1
    /\ buffer_size = 1
    /\ head = [accept_ranges |-> "absent", content_length |-> NoLength]
    /\ original_path = <<"a">>

InitIdle ==
    /\ InitWebIdle
    /\ InitExtIdle

InitPlan == InitIdle

PlanCall ==
    /\ \E total \in 0..PlanMaxTotal, threads \in 1..PlanMaxThreads, cpu \in 1..PlanMaxCpu :
        /\ plan_in' = [total |-> total, threads |-> threads, cpu |-> cpu, called |-> TRUE]
        /\ plan_out' = balanced_chunks(total, threads, cpu)
    /\ UNCHANGED <<inputs, dlvars, harness>>

NextPlan == PlanCall

SpecPlan == InitPlan /\ [][NextPlan]_vars

\* ------------------------------------------------- thread-budget specification
\* Sizes around the multiples of 10 MiB, up to `units` of them.
Sizes(units) ==
    { k * TenMiB + r : k \in 0..units, r \in {0, TenMiB \div 2, TenMiB - 1} }

InitSelect == InitIdle

\* Lines 428-431 applied to one request and two sizes, lo <= hi.
SelectCall ==
    /\ ~sel_in.called
    /\ \E requested \in 1..SelMaxThreads, cpu \in 1..SelMaxCpu, force \in BOOLEAN,
          lo \in Sizes(SelMaxUnits), hi \in Sizes(SelMaxUnits) :
        /\ lo <= hi
        /\ sel_in' = [requested |-> requested, cpu |-> cpu, force |-> force,
                      lo |-> lo, hi |-> hi, called |-> TRUE]
        /\ sel_out' = <<select_threads(requested, lo, force, cpu),
                        select_threads(requested, hi, force, cpu)>>
    /\ UNCHANGED <<plan_in, plan_out, name_in, name_out, poolvars, extvars, inputs, dlvars>>

NextSelect == SelectCall

SpecSelect == InitSelect /\ [][NextSelect]_vars

\* ------------------------------------------------- downloads of real size
\* download_file for sizes around the 10 MiB steps of the thread budget, from a
\* server with or without range support, asked for one thread, two, or more
\* than the host has.
InitLarge ==
    /\ InitHarness
    /\ head \in [accept_ranges : {"bytes", "none"},
                 content_length : { Length(n) : n \in Sizes(LargeMaxUnits) \ Sizes(0) }]
    /\ cpu_cores \in 1..MaxCpu
    /\ requested_threads \in {1, 2, LargeMaxThreads}
    /\ mandatory_use \in BOOLEAN
    /\ pool_size = MaxPool
    /\ buffer_size = TenMiB
    /\ original_path = <<"a", "txt">>
    /\ InitDownloadState

SpecLarge == InitLarge /\ [][Next]_vars

\* ------------------------------------------------- two concurrent downloads
\* Two download_file calls with different destinations in one directory, each
\* reduced to what it does to the files: lines 384, 398-403, the writes, and
\* lines 451-452.
webvars == <<plan_in, plan_out, sel_in, sel_out, name_in, name_out, poolvars, inputs, dlvars>>

InitPair ==
    /\ InitWebIdle
    /\ InitFfiIdle
    /\ InitOtherIdle
    /\ \E d1, d2 \in PairDestinations, s1, s2 \in 1..PairMaxTotal :
          /\ d1 # d2
          /\ pair_op = <<[dest |-> d1, temp |-> << >>, size |-> s1, pc |-> "start"],
                         [dest |-> d2, temp |-> << >>, size |-> s2, pc |-> "start"]>>
    /\ pair_fs = [p \in PairPaths |-> NoFile]
    /\ pair_writers = [p \in PairPaths |-> {}]

PairBegin(o) ==
    /\ pair_op[o].pc = "start"
    /\ pair_op' = [pair_op EXCEPT ![o].temp = TempPath(pair_op[o].dest),
                                  ![o].pc = "allocate"]
    /\ UNCHANGED <<pair_fs, pair_writers, webvars, ffivars, othervars>>

\* open(create, no truncate) and set_len(total_size).
PairAllocate(o) ==
    /\ pair_op[o].pc = "allocate"
    /\ pair_fs' = [pair_fs EXCEPT ![pair_op[o].temp] =
                      [exists |-> TRUE, len |-> pair_op[o].size, copied |-> 0]]
    /\ pair_writers' = [pair_writers EXCEPT ![pair_op[o].temp] = @ \cup {o}]
    /\ pair_op' = [pair_op EXCEPT ![o].pc = "write"]
    /\ UNCHANGED <<webvars, ffivars, othervars>>

\* The transfer writes through the map or the reopened file.
PairWrite(o) ==
    /\ pair_op[o].pc = "write"
    /\ pair_writers' = [pair_writers EXCEPT ![pair_op[o].temp] = @ \cup {o}]
    /\ pair_op' = [pair_op EXCEPT ![o].pc = "verify"]
    /\ UNCHANGED <<pair_fs, webvars, ffivars, othervars>>

\* validate_file, then rename.
PairPublish(o) ==
    /\ pair_op[o].pc = "verify"
    /\ IF validate_file(pair_fs, pair_op[o].temp, pair_op[o].size) # "Ok"
       THEN /\ pair_op' = [pair_op EXCEPT ![o].pc = "failed"]
            /\ UNCHANGED <<pair_fs, pair_writers>>
       ELSE /\ pair_fs' = rename(pair_fs, pair_op[o].temp, pair_op[o].dest)
            /\ pair_writers' = [pair_writers EXCEPT
                                   ![pair_op[o].dest] = pair_writers[pair_op[o].temp],
                                   ![pair_op[o].temp] = {}]
            /\ pair_op' = [pair_op EXCEPT ![o].pc = "done"]
    /\ UNCHANGED <<webvars, ffivars, othervars>>

NextPair ==
    \/ \E o \in DOMAIN pair_op : PairBegin(o)
    \/ \E o \in DOMAIN pair_op : PairAllocate(o)
    \/ \E o \in DOMAIN pair_op : PairWrite(o)
    \/ \E o \in DOMAIN pair_op : PairPublish(o)

SpecPair == InitPair /\ [][NextPair]_vars

\* ------------------------------------------------- the C interface
\* CString::into_raw and Vec allocate; CString::from_raw and drop free.
Allocated(heap, count) ==
    [heap EXCEPT !.next = @ + count, !.live = @ \cup (heap.next..(heap.next + count - 1))]

\* Freeing what is not live is a double free.
Freed(heap, ptr) ==
    IF ptr \in heap.live
    THEN [heap EXCEPT !.live = @ \ {ptr}, !.freed = @ \cup {ptr}]
    ELSE [heap EXCEPT !.double_free = TRUE]

FreedIfSet(heap, ptr) == IF ptr # Null THEN Freed(heap, ptr) ELSE heap

InitFfi ==
    /\ InitWebIdle
    /\ InitExtIdle

\* What download_file, or the conversion of the arguments before it, came to.
DownloadOutcomes ==
    {[kind |-> k, threads |-> 0] : k \in {"bad_url", "bad_path", "err"}}
    \cup {[kind |-> "ok", threads |-> t] : t \in 1..FfiMaxThreads}

\* Lines 718-782.
c_download_file(outcome) ==
    /\ c_heap.next + 1 <= FfiMaxAllocs
    /\ IF outcome.kind = "ok"
       THEN /\ c_heap' = Allocated(c_heap, 2)
            /\ c_download' = [state |-> "returned", ret |-> 0, ok |-> TRUE,
                              threads |-> outcome.threads,
                              threads_used |-> outcome.threads,
                              save_path |-> c_heap.next, file_name |-> c_heap.next + 1,
                              error_msg |-> Null]
       ELSE /\ c_heap' = Allocated(c_heap, 1)
            /\ c_download' = [state |-> "returned", ret |-> 1, ok |-> FALSE,
                              threads |-> 0, threads_used |-> 0,
                              save_path |-> Null, file_name |-> Null,
                              error_msg |-> c_heap.next]
    /\ UNCHANGED <<c_post, webvars, pairvars, othervars>>

\* Mutant of ResetDownloadPointers: the pointers are left as they are.
KeepDownloadPointers(r) == [r EXCEPT !.state = "freed"]

\* Lines 826-828.
ResetDownloadPointers(r) ==
    [r EXCEPT !.state = "freed", !.save_path = Null, !.file_name = Null,
              !.error_msg = Null]

\* Lines 808-830, on a result that c_download_file has filled.
free_c_download_result ==
    /\ c_download.state # "none"
    /\ c_heap' = FreedIfSet(FreedIfSet(FreedIfSet(c_heap, c_download.save_path),
                                       c_download.file_name), c_download.error_msg)
    /\ c_download' = ResetDownloadPointers(c_download)
    /\ UNCHANGED <<c_post, webvars, pairvars, othervars>>

\* What web_post or web_post_headers, or the conversions before it, came to.
PostOutcomes ==
    {[kind |-> k, len |-> 0] : k \in {"bad_argument", "err", "text"}}
    \cup {[kind |-> "bytes", len |-> n] : n \in 1..FfiMaxBody}

\* The match on the result of web_post: lines 609-634 and 687-712. The Vec of a
\* byte body is owned by the match arm and dropped at its end. fn is the
\* function that filled the result.
PostReturn(fn, outcome) ==
    /\ CASE outcome.kind = "text" ->
              /\ c_heap' = Allocated(c_heap, 1)
              /\ c_post' = [NoResPost EXCEPT !.state = "returned", !.fn = fn, !.body_type = 0,
                                             !.body_text = c_heap.next]
         [] outcome.kind = "bytes" ->
              /\ c_heap' = Freed(Allocated(c_heap, 1), c_heap.next)
              /\ c_post' = [NoResPost EXCEPT !.state = "returned", !.fn = fn, !.body_type = 1,
                                             !.body_bytes = c_heap.next,
                                             !.body_len = outcome.len]
         [] OTHER ->
              /\ c_heap' = Allocated(c_heap, 1)
              /\ c_post' = [NoResPost EXCEPT !.state = "returned", !.fn = fn, !.ret = 1,
                                             !.error_msg = c_heap.next]
    /\ UNCHANGED <<c_download, webvars, pairvars, othervars>>

\* Lines 572-636.
c_web_post ==
    /\ c_heap.next <= FfiMaxAllocs
    /\ \E outcome \in PostOutcomes : PostReturn("c_web_post", outcome)

\* Lines 640-714.
c_web_post_with_headers ==
    /\ c_heap.next <= FfiMaxAllocs
    /\ \E outcome \in PostOutcomes : PostReturn("c_web_post_with_headers", outcome)

\* Lines 786-804, on a result that a POST function has filled.
free_c_res_post ==
    /\ c_post.state # "none"
    /\ c_heap' = FreedIfSet(FreedIfSet(c_heap, c_post.body_text), c_post.error_msg)
    /\ c_post' = [c_post EXCEPT !.state = "freed", !.body_text = Null,
                                !.error_msg = Null, !.body_bytes = Null]
    /\ UNCHANGED <<c_download, webvars, pairvars, othervars>>

NextFfi ==
    \/ \E outcome \in DownloadOutcomes : c_download_file(outcome)
    \/ free_c_download_result
    \/ c_web_post
    \/ c_web_post_with_headers
    \/ free_c_res_post

SpecFfi == InitFfi /\ [][NextFfi]_vars

\* ------------------------------------------------- ThreadPool (utils.rs)
\* ThreadPool::new has returned: size workers wait on an empty channel.
InitThreadPool ==
    /\ InitWebIdle
    /\ InitPairIdle
    /\ InitFfiIdle
    /\ InitListIdle
    /\ \E size \in 1..TpMaxSize :
          /\ tp_pool = [state |-> "live", size |-> size, sent |-> 0, joined |-> 0]
          /\ tp_workers = [w \in 1..size |-> [st |-> "idle", job |-> 0, terminates |-> 0]]
    /\ tp_chan = << >>
    /\ tp_jobs = << >>

NewJob(j) == [kind |-> "NewJob", job |-> j]
Terminate == [kind |-> "Terminate", job |-> 0]

\* The Receiver of the pool's channel lives in an Arc that every worker's
\* closure holds: it is dropped when the last worker thread has ended.
ReceiverAlive == \E w \in DOMAIN tp_workers : tp_workers[w].st \in {"idle", "running"}

\* Lines 412-421. send fails, and expect panics, once the Receiver is gone.
submit ==
    /\ tp_pool.state = "live"
    /\ Len(tp_jobs) < TpMaxJobs
    /\ IF ReceiverAlive
       THEN /\ tp_jobs' = Append(tp_jobs, [rx |-> "held", runs |-> 0, by |-> {},
                                            received |-> << >>])
            /\ tp_chan' = Append(tp_chan, NewJob(Len(tp_jobs) + 1))
            /\ UNCHANGED tp_pool
       ELSE /\ tp_pool' = [tp_pool EXCEPT !.state = "panicked"]
            /\ UNCHANGED <<tp_chan, tp_jobs>>
    /\ UNCHANGED <<tp_workers, listvars, webvars, pairvars, ffivars>>

\* The caller drops the Receiver<R> that submit returned.
DropResultReceiver(j) ==
    /\ tp_jobs[j].rx = "held"
    /\ tp_jobs' = [tp_jobs EXCEPT ![j].rx = "dropped"]
    /\ UNCHANGED <<tp_pool, tp_chan, tp_workers, listvars, webvars, pairvars, ffivars>>

\* Lines 328-332 and 343: lock, recv, unlock. recv blocks on an empty channel.
WorkerRecv(w) ==
    /\ tp_workers[w].st = "idle"
    /\ tp_chan # << >>
    /\ tp_chan' = Tail(tp_chan)
    /\ tp_workers' = [tp_workers EXCEPT ![w] =
           IF Head(tp_chan).kind = "Terminate"
           THEN [@ EXCEPT !.st = "exited", !.terminates = @ + 1]
           ELSE [@ EXCEPT !.st = "running", !.job = Head(tp_chan).job]]
    /\ UNCHANGED <<tp_pool, tp_jobs, listvars, webvars, pairvars, ffivars>>

\* Line 340: tx.send(result).expect(..) panics when the Receiver was dropped.
SendResult(job) == IF job.rx = "held" THEN "idle" ELSE "panicked"

\* Lines 338-341: the job runs and its result is sent on the job's own Sender.
WorkerRun(w) ==
    /\ tp_workers[w].st = "running"
    /\ LET j == tp_workers[w].job IN
          /\ tp_jobs' = [tp_jobs EXCEPT ![j] =
                 [@ EXCEPT !.runs = @ + 1, !.by = @ \cup {w},
                           !.received = IF tp_jobs[j].rx = "held"
                                        THEN Append(@, j) ELSE @]]
          /\ tp_workers' = [tp_workers EXCEPT ![w].st = SendResult(tp_jobs[j])]
    /\ UNCHANGED <<tp_pool, tp_chan, listvars, webvars, pairvars, ffivars>>

\* Lines 426-428: one Terminate for each worker.
DropSend ==
    /\ tp_pool.state \in {"live", "sending"}
    /\ IF ~ReceiverAlive
       THEN /\ tp_pool' = [tp_pool EXCEPT !.state = "panicked"]
            /\ UNCHANGED tp_chan
       ELSE /\ tp_chan' = Append(tp_chan, Terminate)
            /\ tp_pool' = [tp_pool EXCEPT !.sent = @ + 1,
                   !.state = IF tp_pool.sent + 1 = tp_pool.size
                             THEN "joining" ELSE "sending"]
    /\ UNCHANGED <<tp_workers, tp_jobs, listvars, webvars, pairvars, ffivars>>

\* Lines 430-434: join the workers in order; join of a thread that panicked
\* is an Err and expect panics.
DropJoin ==
    /\ tp_pool.state = "joining"
    /\ LET w == tp_pool.joined + 1 IN
          /\ tp_workers[w].st \in {"exited", "panicked"}
          /\ tp_pool' = [tp_pool EXCEPT
                 !.joined = IF tp_workers[w].st = "exited" THEN w ELSE @,
                 !.state = IF tp_workers[w].st = "panicked" THEN "panicked"
                           ELSE IF w = tp_pool.size THEN "dropped" ELSE "joining"]
    /\ UNCHANGED <<tp_chan, tp_workers, tp_jobs, listvars, webvars, pairvars, ffivars>>

NextThreadPool ==
    \/ submit
    \/ \E j \in DOMAIN tp_jobs : DropResultReceiver(j)
    \/ \E w \in DOMAIN tp_workers : WorkerRecv(w)
    \/ \E w \in DOMAIN tp_workers : WorkerRun(w)
    \/ DropSend
    \/ DropJoin

SpecThreadPool == InitThreadPool /\ [][NextThreadPool]_vars

\* Threads that can run do run.
SpecThreadPoolFair == SpecThreadPool /\ WF_vars(NextThreadPool)

\* ------------------------------------------------- DoublyLinkedList (list.rs)
InitList ==
    /\ InitWebIdle
    /\ InitPairIdle
    /\ InitFfiIdle
    /\ InitTpIdle
    /\ InitListIdle

ListValues == 1..ListMaxValue

\* Box::into_raw(Box::new(..)): an address that no live node has.
NewAddress(l) == CHOOSE a \in 1..(ListMaxLen + 1) : a \notin DOMAIN l.nodes

\* The heap with the node at address a written.
Stored(nodes, a, node) ==
    [n \in DOMAIN nodes \cup {a} |-> IF n = a THEN node ELSE nodes[n]]

\* Box::from_raw(a) dropped: the node is freed.
Released(nodes, a) == [n \in DOMAIN nodes \ {a} |-> nodes[n]]

\* Mutant of push_front: the old head keeps its null prev.
push_front_no_back_link(l, data) ==
    LET new_node == NewAddress(l) IN
    [l EXCEPT !.nodes = Stored(l.nodes, new_node,
                               [data |-> data, prev |-> Null, next |-> l.head]),
              !.tail = IF l.head # Null THEN @ ELSE new_node,
              !.head = new_node,
              !.len = @ + 1]

\* Lines 99-116.
push_front(l, data) ==
    LET new_node == NewAddress(l)
        made == Stored(l.nodes, new_node, [data |-> data, prev |-> Null, next |-> l.head])
    IN  [l EXCEPT !.nodes = IF l.head # Null
                            THEN [made EXCEPT ![l.head].prev = new_node]
                            ELSE made,
                  !.tail = IF l.head # Null THEN @ ELSE new_node,
                  !.head = new_node,
                  !.len = @ + 1]

\* Lines 139-156.
push_back(l, data) ==
    LET new_node == NewAddress(l)
        made == Stored(l.nodes, new_node, [data |-> data, prev |-> l.tail, next |-> Null])
    IN  [l EXCEPT !.nodes = IF l.tail # Null
                            THEN [made EXCEPT ![l.tail].next = new_node]
                            ELSE made,
                  !.head = IF l.tail # Null THEN @ ELSE new_node,
                  !.tail = new_node,
                  !.len = @ + 1]

\* Lines 180-198: the list afterwards and the Option returned.
pop_front(l) ==
    IF l.head = Null THEN [list |-> l, ret |-> None]
    ELSE LET old_head == l.nodes[l.head]
             rest == Released(l.nodes, l.head)
         IN  [list |-> [l EXCEPT !.head = old_head.next,
                                 !.nodes = IF old_head.next # Null
                                           THEN [rest EXCEPT ![old_head.next].prev = Null]
                                           ELSE rest,
                                 !.tail = IF old_head.next # Null THEN @ ELSE Null,
                                 !.len = @ - 1],
              ret |-> Some(old_head.data)]

\* Lines 222-240.
pop_back(l) ==
    IF l.tail = Null THEN [list |-> l, ret |-> None]
    ELSE LET old_tail == l.nodes[l.tail]
             rest == Released(l.nodes, l.tail)
         IN  [list |-> [l EXCEPT !.tail = old_tail.prev,
                                 !.nodes = IF old_tail.prev # Null
                                           THEN [rest EXCEPT ![old_tail.prev].next = Null]
                                           ELSE rest,
                                 !.head = IF old_tail.prev # Null THEN @ ELSE Null,
                                 !.len = @ - 1],
              ret |-> Some(old_tail.data)]

\* Lines 382-396 and 441-455: current is taken out of the chain and freed.
Unlinked(l, current) ==
    LET node == l.nodes[current]
        n1 == IF node.prev # Null
              THEN [l.nodes EXCEPT ![node.prev].next = node.next] ELSE l.nodes
        n2 == IF node.next # Null
              THEN [n1 EXCEPT ![node.next].prev = node.prev] ELSE n1
    IN  [l EXCEPT !.head = IF node.prev # Null THEN @ ELSE node.next,
                  !.tail = IF node.next # Null THEN @ ELSE node.prev,
                  !.nodes = Released(n2, current),
                  !.len = @ - 1]

RECURSIVE RemoveFrom(_, _, _)
\* The loop of remove, lines 378-402.
RemoveFrom(l, current, data) ==
    IF current = Null THEN [list |-> l, ret |-> Some(FALSE)]
    ELSE IF l.nodes[current].data = data
         THEN [list |-> Unlinked(l, current), ret |-> Some(TRUE)]
         ELSE RemoveFrom(l, l.nodes[current].next, data)

RECURSIVE RemoveAllFrom(_, _, _, _)
\* The loop of remove_all, lines 436-463.
RemoveAllFrom(l, current, data, count) ==
    IF current = Null THEN [list |-> l, ret |-> Some(count)]
    ELSE LET next == l.nodes[current].next IN
         IF l.nodes[current].data = data
         THEN RemoveAllFrom(Unlinked(l, current), next, data, count + 1)
         ELSE RemoveAllFrom(l, next, data, count)

\* Lines 435-466.
remove_all(l, data) == RemoveAllFrom(l, l.head, data, 0)

\* Mutant of remove: every equal element goes, not only the first.
remove_every(l, data) ==
    [list |-> remove_all(l, data).list,
     ret |-> Some(remove_all(l, data).ret # Some(0))]

\* Lines 377-405.
remove(l, data) == RemoveFrom(l, l.head, data)

\* The sequence operations the list is compared with.
WithoutFirst(seq, x) ==
    IF \A k \in DOMAIN seq : seq[k] # x THEN seq
    ELSE LET k == CHOOSE k \in DOMAIN seq :
                      seq[k] = x /\ \A m \in 1..(k - 1) : seq[m] # x
         IN  SubSeq(seq, 1, k - 1) \o SubSeq(seq, k + 1, Len(seq))

Without(seq, x) == SelectSeq(seq, LAMBDA y : y # x)

Occurrences(seq, x) == Cardinality({k \in DOMAIN seq : seq[k] = x})

HasRoom == Cardinality(DOMAIN dll.nodes) < ListMaxLen

PushFront(data) ==
    /\ HasRoom
    /\ dll' = push_front(dll, data)
    /\ dll_model' = <<data>> \o dll_model
    /\ dll_ret' = [op |-> "push_front", got |-> None, expected |-> None]
    /\ UNCHANGED <<tpvars, webvars, pairvars, ffivars>>

PushBack(data) ==
    /\ HasRoom
    /\ dll' = push_back(dll, data)
    /\ dll_model' = Append(dll_model, data)
    /\ dll_ret' = [op |-> "push_back", got |-> None, expected |-> None]
    /\ UNCHANGED <<tpvars, webvars, pairvars, ffivars>>

PopFront ==
    /\ dll' = pop_front(dll).list
    /\ dll_model' = IF dll_model = << >> THEN << >> ELSE Tail(dll_model)
    /\ dll_ret' = [op |-> "pop_front", got |-> pop_front(dll).ret,
                   expected |-> IF dll_model = << >> THEN None
                                ELSE Some(Head(dll_model))]
    /\ UNCHANGED <<tpvars, webvars, pairvars, ffivars>>

PopBack ==
    /\ dll' = pop_back(dll).list
    /\ dll_model' = IF dll_model = << >> THEN << >>
                    ELSE SubSeq(dll_model, 1, Len(dll_model) - 1)
    /\ dll_ret' = [op |-> "pop_back", got |-> pop_back(dll).ret,
                   expected |-> IF dll_model = << >> THEN None
                                ELSE Some(dll_model[Len(dll_model)])]
    /\ UNCHANGED <<tpvars, webvars, pairvars, ffivars>>

Remove(data) ==
    /\ dll' = remove(dll, data).list
    /\ dll_model' = WithoutFirst(dll_model, data)
    /\ dll_ret' = [op |-> "remove", got |-> remove(dll, data).ret,
                   expected |-> Some(Occurrences(dll_model, data) > 0)]
    /\ UNCHANGED <<tpvars, webvars, pairvars, ffivars>>

RemoveAll(data) ==
    /\ dll' = remove_all(dll, data).list
    /\ dll_model' = Without(dll_model, data)
    /\ dll_ret' = [op |-> "remove_all", got |-> remove_all(dll, data).ret,
                   expected |-> Some(Occurrences(dll_model, data))]
    /\ UNCHANGED <<tpvars, webvars, pairvars, ffivars>>

NextList ==
    \/ \E data \in ListValues : PushFront(data)
    \/ \E data \in ListValues : PushBack(data)
    \/ PopFront
    \/ PopBack
    \/ \E data \in ListValues : Remove(data)
    \/ \E data \in ListValues : RemoveAll(data)

SpecList == InitList /\ [][NextList]_vars

RECURSIVE Walk(_, _, _, _)
\* The addresses met from current along next (forward) or prev, given up after
\* fuel steps or at an address that is not a node.
Walk(l, current, forward, fuel) ==
    IF current = Null \/ fuel = 0 \/ current \notin DOMAIN l.nodes THEN << >>
    ELSE <<current>> \o Walk(l, IF forward THEN l.nodes[current].next
                                          ELSE l.nodes[current].prev,
                              forward, fuel - 1)

FromHead(l) == Walk(l, l.head, TRUE, ListMaxLen + 2)
FromTail(l) == Walk(l, l.tail, FALSE, ListMaxLen + 2)
Reversed(seq) == [k \in 1..Len(seq) |-> seq[Len(seq) + 1 - k]]
Contents(l) == [k \in 1..Len(FromHead(l)) |-> l.nodes[FromHead(l)[k]].data]

\* ------------------------------------------------- BufferPool on its own
\* Threads call get and put in any order; a Vec is [id, len], the id telling
\* one allocation from another. A thread that owns a Vec may change its length
\* or drop it.
InitPool ==
    /\ InitHarness
    /\ cpu_cores = 1
    /\ requested_threads = 1
    /\ mandatory_use = FALSE
    /\ pool_size \in 1..PoolMaxCapacity
    /\ buffer_size \in 1..PoolMaxBufSize
    /\ head = [accept_ranges |-> "absent", content_length |-> NoLength]
    /\ original_path = <<"a">>
    /\ InitDownloadState

\* Mutant of ArrayQueuePush: the queue takes the element whatever it holds.
ArrayQueuePushUnbounded(queue, capacity, element) == Append(queue, element)

\* ArrayQueue::push on a queue made by ArrayQueue::new(capacity): a full queue
\* is left as it is.
ArrayQueuePush(queue, capacity, element) ==
    IF Len(queue) < capacity THEN Append(queue, element) ELSE queue

\* Lines 250-256: pop an idle Vec, or allocate vec![0; buffer_size].
PoolGet(w) ==
    /\ pool_held[w] = NoBuffer
    /\ IF pool_q # << >>
       THEN /\ pool_held' = [pool_held EXCEPT ![w] = Head(pool_q)]
            /\ pool_q' = Tail(pool_q)
            /\ UNCHANGED pool_next
       ELSE /\ pool_next <= PoolMaxAllocs
            /\ pool_held' = [pool_held EXCEPT ![w] = [id |-> pool_next, len |-> buffer_size]]
            /\ pool_next' = pool_next + 1
            /\ UNCHANGED pool_q
    /\ UNCHANGED <<plan_in, plan_out, sel_in, sel_out, name_in, name_out, extvars, inputs, dlvars>>

\* The owner truncates or extends its Vec.
PoolResize(w) ==
    /\ pool_held[w] # NoBuffer
    /\ \E n \in 0..PoolMaxBufSize :
          /\ n # pool_held[w].len
          /\ pool_held' = [pool_held EXCEPT ![w].len = n]
    /\ UNCHANGED <<pool_q, pool_next>>
    /\ UNCHANGED <<plan_in, plan_out, sel_in, sel_out, name_in, name_out, extvars, inputs, dlvars>>

\* Lines 258-262: clear, resize to buffer_size, push; the Vec is moved into put
\* and dropped there when the queue is full.
PoolPut(w) ==
    /\ pool_held[w] # NoBuffer
    /\ LET buf == [pool_held[w] EXCEPT !.len = buffer_size]
       IN  pool_q' = ArrayQueuePush(pool_q, pool_size, buf)
    /\ pool_held' = [pool_held EXCEPT ![w] = NoBuffer]
    /\ UNCHANGED pool_next
    /\ UNCHANGED <<plan_in, plan_out, sel_in, sel_out, name_in, name_out, extvars, inputs, dlvars>>

\* The owner drops its Vec without put.
PoolDrop(w) ==
    /\ pool_held[w] # NoBuffer
    /\ pool_held' = [pool_held EXCEPT ![w] = NoBuffer]
    /\ UNCHANGED <<pool_q, pool_next>>
    /\ UNCHANGED <<plan_in, plan_out, sel_in, sel_out, name_in, name_out, extvars, inputs, dlvars>>

NextPool ==
    \/ \E w \in 1..PoolWorkers : PoolGet(w)
    \/ \E w \in 1..PoolWorkers : PoolResize(w)
    \/ \E w \in 1..PoolWorkers : PoolPut(w)
    \/ \E w \in 1..PoolWorkers : PoolDrop(w)

SpecPool == InitPool /\ [][NextPool]_vars

\* ------------------------------------------------- extract_filename
\* A string is the sequence of its characters. In a URL path a percent escape is
\* one element: %01 is a control character, %2F a slash and %FF a byte that is
\* no UTF-8.
PathChars == {"/", "a", ".", ":", "%01", "%2F", "%FF"}
Control == "U+0001"
InvalidByte == "0xFF"
ControlChars == {Control}
Replaced == ControlChars \cup {"/", "\\", ":", "*"}

DotBin == <<".", "b", "i", "n">>
InvalidUrlBin == <<"i", "n", "v", "a", "l", "i", "d", "_", "u", "r", "l">> \o DotBin
Unknown == <<"u", "n", "k", "n", "o", "w", "n">>

\* What Url::parse returns: an error, or a URL with host_str() and path(). The
\* host is absent, a name or an IPv6 literal; a URL with a host has an empty
\* path or one that starts with a slash.
NoHost == [some |-> FALSE, str |-> << >>]
Hosts == {NoHost, [some |-> TRUE, str |-> <<"h">>],
          [some |-> TRUE, str |-> <<"[", ":", ":", "1", "]">>]}
Paths == UNION { [1..n -> PathChars] : n \in 0..NameMaxLen }
Unparsable == [parsed |-> FALSE, host |-> NoHost, path |-> << >>]
Urls ==
    {Unparsable} \cup
    { u \in [parsed : {TRUE}, host : Hosts, path : Paths] :
        u.host.some => (u.path = << >> \/ u.path[1] = "/") }

Contains(str, c) == \E k \in DOMAIN str : str[k] = c

\* str::split('/'): the pieces between the slashes, empty ones included.
RECURSIVE SplitFrom(_, _)
SplitFrom(str, piece) ==
    IF str = << >> THEN <<piece>>
    ELSE IF Head(str) = "/" THEN <<piece>> \o SplitFrom(Tail(str), << >>)
    ELSE SplitFrom(Tail(str), Append(piece, Head(str)))

Split(str) == SplitFrom(str, << >>)

\* percent_decode_str: every escape becomes the byte it names.
PercentDecode(raw) ==
    [k \in DOMAIN raw |->
        CASE raw[k] = "%01" -> Control
          [] raw[k] = "%2F" -> "/"
          [] raw[k] = "%FF" -> InvalidByte
          [] OTHER -> raw[k]]

\* decode_utf8().unwrap_or_default(): the empty string when a byte is no UTF-8.
DecodeUtf8OrDefault(bytes) == IF Contains(bytes, InvalidByte) THEN << >> ELSE bytes

\* Mutant of clean_filename: control characters are kept.
clean_filename_keep_controls(raw) ==
    LET decoded == DecodeUtf8OrDefault(PercentDecode(raw))
    IN  [k \in DOMAIN decoded |->
            IF decoded[k] \in Replaced \ ControlChars THEN "_" ELSE decoded[k]]

clean_filename(raw) ==
    LET decoded == DecodeUtf8OrDefault(PercentDecode(raw))
    IN  [k \in DOMAIN decoded |-> IF decoded[k] \in Replaced THEN "_" ELSE decoded[k]]

generate_default_name(url) ==
    LET host == IF url.host.some THEN url.host.str ELSE Unknown
    IN  host \o DotBin

add_default_extension(name) ==
    IF Contains(name, ".") THEN name ELSE name \o DotBin

\* segments.iter().rev().find(|s| !s.is_empty())
RECURSIVE LastNonEmpty(_)
LastNonEmpty(segments) ==
    IF segments = << >> THEN [found |-> FALSE, segment |-> << >>]
    ELSE IF segments[Len(segments)] # << >>
         THEN [found |-> TRUE, segment |-> segments[Len(segments)]]
    ELSE LastNonEmpty(SubSeq(segments, 1, Len(segments) - 1))

extract_filename(url) ==
    IF ~url.parsed THEN InvalidUrlBin
    ELSE IF url.path = << >> \/ url.path = <<"/">> THEN generate_default_name(url)
    ELSE LET last == LastNonEmpty(Split(url.path))
             filename == IF last.found THEN clean_filename(last.segment)
                         ELSE generate_default_name(url)
         IN  add_default_extension(filename)

InitName == InitIdle

NameCall ==
    /\ ~name_in.called
    /\ \E url \in Urls :
        /\ name_in' = [parsed |-> url.parsed, host |-> url.host, path |-> url.path,
                       called |-> TRUE]
        /\ name_out' = extract_filename(url)
    /\ UNCHANGED <<plan_in, plan_out, sel_in, sel_out, poolvars, extvars, inputs, dlvars>>

NextName == NameCall

SpecName == InitName /\ [][NextName]_vars

\* ------------------------------------------------------------------ claims
FileWrites == {"create", "set_len", "write"}
ChunkFailed == \E i \in DOMAIN workers : workers[i].st = "err"

\* C1: for every destination the temp path differs from the destination, and no
\* create, set-length or write is ever applied to the destination path itself.
C1_TempNeverDestination ==
    /\ Record("create", temp_path) \in ops => temp_path # original_path
    /\ \A o \in ops : o.op \in FileWrites => o.path # original_path

\* C2: for total_size >= 1 and threads >= 1 the ranges of balanced_chunks have
\* start <= end, begin at 0, are contiguous and ascending, end at total_size - 1,
\* sum to total_size, and are at most min(threads, total_size) many.
C2_PlanPartition ==
    (plan_in.called /\ plan_in.total >= 1 /\ plan_in.threads >= 1) =>
        LET n == Len(plan_out)
        IN  /\ n >= 1
            /\ plan_out[1][1] = 0
            /\ plan_out[n][2] = plan_in.total - 1
            /\ \A i \in 1..n : plan_out[i][1] <= plan_out[i][2]
            /\ \A i \in 2..n : plan_out[i][1] = plan_out[i - 1][2] + 1
            /\ SumSpans(plan_out) = plan_in.total
            /\ n <= Min(plan_in.threads, plan_in.total)

\* A plan of several ranges whose number the size caps, not the thread count.
C2_Witness ==
    /\ plan_in.called
    /\ plan_in.threads > plan_in.total
    /\ Len(plan_out) = plan_in.total
    /\ Len(plan_out) >= 3

\* C3: for every total_size, 0 included, the spans of the plan sum to total_size
\* and the plan has at most actual_threads and at most total_size / MIN_CHUNK_SIZE
\* ranges.
C3_PlanInvariants ==
    plan_in.called =>
        /\ SumSpans(plan_out) = plan_in.total
        /\ Len(plan_out) <= plan_in.threads
        /\ Len(plan_out) <= plan_in.total \div MIN_CHUNK_SIZE

\* C4: a chunk worker issues at most 3 ranged GETs and succeeds as soon as one
\* attempt copies exactly end - start + 1 bytes: it never returns an error after
\* an attempt that copied the whole span.
C4_ChunkRetryBoundary ==
    \A i \in DOMAIN workers :
        /\ workers[i].gets <= MAX_RETRIES
        /\ workers[i].st = "err" => ~AttemptComplete(chunks[i], workers[i].offset)

\* C5: when a chunk fails terminally, download_file returns an error, the temp
\* file is still there and was not renamed, and the destination, which did not
\* exist before, does not exist.
C5_FailureLeavesOnlyTemp ==
    (pc = "failed" /\ ChunkFailed) =>
        /\ result.kind = "err"
        /\ fs[temp_path].exists
        /\ Record("rename", original_path) \notin ops
        /\ ~fs[original_path].exists

\* Every ranged response so far was complete and correct.
AllResponsesComplete ==
    \A i \in DOMAIN workers :
        /\ workers[i].gets <= 1
        /\ workers[i].st # "panicked"
        /\ workers[i].err \notin {"RequestError", "Io"}
        /\ workers[i].st \in {"put", "ok", "err"}
              => AttemptComplete(chunks[i], workers[i].offset)

\* C6: with a pool of capacity 1 and more than one chunk worker, when every
\* ranged response is complete no schedule of get and put fails a chunk or the
\* download.
C6_PoolOverflowHarmless ==
    (pool_size = 1 /\ Len(chunks) > 1 /\ AllResponsesComplete) =>
        /\ ~ChunkFailed
        /\ result.err # "BufferPoolFull"

\* C7: BufferPool put never reports an error to the worker that called it.
C7_PutNeverFails ==
    \A i \in DOMAIN workers : workers[i].err # "BufferPoolFull"

\* C8: a request failure or a connection drop of a chunk reaches download_file
\* only after 3 attempts of the chunk.
C8_TransientRetried ==
    \A i \in DOMAIN workers :
        (workers[i].st = "err" /\ workers[i].err \in {"RequestError", "Io"})
            => workers[i].gets = MAX_RETRIES

C10_NoRangesSingleStream ==
    ~supports_chunked =>
        /\ pc \notin {"plan", "parallel", "verify", "publish"}
        /\ workers = << >>
        /\ pc = "done" => (result.threads_used = 1 /\ unranged_gets = 1)

\* A forced multi-thread request served by the single-stream path.
C10_Witness ==
    /\ pc = "done"
    /\ ~supports_chunked
    /\ mandatory_use
    /\ requested_threads > 1
    /\ result.kind = "ok"

\* C11 as stated: the single-stream path reaches Done only when the body written
\* to the temp file has exactly total_size bytes.
C11_SingleStreamBodyComplete ==
    (pc = "done" /\ ~supports_chunked) =>
        /\ fs[original_path].len = total_size
        /\ fs[original_path].copied = total_size

\* C12: without a usable Content-Length download_file fails before any transfer:
\* no file is created or resized and no GET of either kind is issued.
C12_MissingLengthStopsEarly ==
    /\ (head.content_length.kind # "number" /\ pc \notin {"start", "probe"}) =>
          /\ pc = "failed"
          /\ result.err \in {MissingLength, "RequestError"}
          /\ ops = {}
          /\ \A p \in AllPaths : ~fs[p].exists
          /\ unranged_gets = 0
          /\ workers = << >>
    /\ result.err = MissingLength => head.content_length.kind # "number"

\* The probe answered with range support and an unparsable Content-Length.
C12_Witness ==
    /\ pc = "failed"
    /\ result.err = MissingLength
    /\ head.accept_ranges = "bytes"
    /\ head.content_length.kind = "garbage"

\* C16: BufferPool get never blocks and never fails, and the buffer it returns
\* has length buffer_size, popped or fresh; every idle buffer has that length.
C16_GetNeverFails ==
    /\ \A i \in DOMAIN workers :
          /\ workers[i].err # "BufferPoolEmpty"
          /\ workers[i].st \in {"read", "put"} => workers[i].buf = buffer_size
          /\ (pc = "parallel" /\ workers[i].st = "get") => ENABLED ChunkGet(i)
    /\ \A k \in DOMAIN buffer_pool : buffer_pool[k] = buffer_size

\* A second attempt reading through the buffer its first attempt returned.
C16_Witness ==
    /\ Len(workers) = 1
    /\ workers[1].st = "read"
    /\ workers[1].attempt = 1
    /\ buffer_pool = << >>
    /\ workers[1].buf = buffer_size

\* C17: download_file returns Ok only with a file whose length is total_size; a
\* mismatch yields ValidationFailed and no rename.
C17_LengthVerified ==
    /\ pc = "done" =>
          /\ result.kind = "ok"
          /\ fs[original_path].exists
          /\ fs[original_path].len = total_size
    /\ result.err = "ValidationFailed" =>
          /\ pc = "failed"
          /\ fs[temp_path].len # total_size
          /\ Record("rename", original_path) \notin ops

\* A body longer than Content-Length is caught by the length check.
C17_Witness ==
    /\ result.err = "ValidationFailed"
    /\ fs[temp_path].len > total_size

\* C18: supports_ranges is true exactly when Accept-Ranges is the literal
\* "bytes"; an absent header or any other value selects the single-stream path.
C18_RangeTokenLiteral ==
    /\ supports_chunked => head.accept_ranges = "bytes"
    /\ Record("create", temp_path) \in ops
          => (supports_chunked <=> head.accept_ranges = "bytes")
    /\ pc \in {"plan", "parallel", "verify", "publish"} => head.accept_ranges = "bytes"
    /\ pc \in {"single", "single_verify"} => head.accept_ranges # "bytes"

\* A header that differs from the token only by case takes the single-stream path.
C18_Witness ==
    /\ head.accept_ranges = "Bytes"
    /\ pc = "single_verify"

\* The offsets of the map worker i has written.
WrittenRange(i) ==
    LET first == Slices(chunks)[i][1]
    IN  first .. (first + workers[i].filled - 1)

\* C20: slice i covers exactly the offsets of plan range i, the slices are
\* pairwise disjoint, their union is [0, total_size), and no worker writes
\* outside its slice.
C20_SlicesPartition ==
    workers # << >> =>
        LET sl == Slices(chunks)
        IN  /\ Len(sl) = Len(chunks)
            /\ \A i \in DOMAIN workers : sl[i] = chunks[i]
            /\ \A i, j \in DOMAIN workers :
                  i # j => (sl[i][1] .. sl[i][2]) \cap (sl[j][1] .. sl[j][2]) = {}
            /\ UNION { sl[i][1] .. sl[i][2] : i \in DOMAIN workers } = 0 .. (total_size - 1)
            /\ \A i \in DOMAIN workers : WrittenRange(i) \subseteq (sl[i][1] .. sl[i][2])
            /\ \A i, j \in DOMAIN workers :
                  i # j => WrittenRange(i) \cap WrittenRange(j) = {}

\* Two workers have both filled their slices.
C20_Witness ==
    /\ Len(chunks) = 2
    /\ \A i \in DOMAIN workers : workers[i].filled = Span(chunks[i])
    /\ \E i \in DOMAIN workers : workers[i].st = "put"

\* C13: the thread budget lies in [1, requested] for requested >= 1, and with
\* force = false it does not decrease when total_size grows, the request and
\* the host being the same.
C13_BudgetInRangeMonotone ==
    sel_in.called =>
        /\ sel_out[1] \in 1..sel_in.requested
        /\ sel_out[2] \in 1..sel_in.requested
        /\ ~sel_in.force => sel_out[1] <= sel_out[2]

\* A budget that grew with the size and is still below the request.
C13_Witness ==
    /\ sel_in.called
    /\ ~sel_in.force
    /\ sel_in.lo < sel_in.hi
    /\ sel_out[1] < sel_out[2]
    /\ sel_out[2] < sel_in.requested

\* C14: without force the budget is clamp(requested, 1, max(1, min(cpu_cap,
\* total_size / 10 MiB))), which is 1 below 20 MiB; with force the budget, and
\* threads_used on success, is the request.
C14_BudgetFormula ==
    actual_threads # 0 =>
        LET size_cap == total_size \div TenMiB
            cap == IF cpu_cores <= size_cap THEN cpu_cores ELSE size_cap
            hi == IF cap >= 1 THEN cap ELSE 1
        IN  /\ ~mandatory_use =>
                  /\ requested_threads <= hi => actual_threads = requested_threads
                  /\ requested_threads > hi => actual_threads = hi
                  /\ total_size < 2 * TenMiB => actual_threads = 1
            /\ mandatory_use =>
                  /\ actual_threads = requested_threads
                  /\ pc = "done" => result.threads_used = requested_threads

\* A forced download that succeeded with more threads than the size allows.
C14_Witness ==
    /\ pc = "done"
    /\ mandatory_use
    /\ total_size < 2 * TenMiB
    /\ requested_threads > 1
    /\ result.threads_used = requested_threads

\* C15: 26214400 bytes, 4 requested threads, no force, a host of at least 2
\* threads: budget 2, the plan (0, 13107199), (13107200, 26214399),
\* threads_used 2, and on success a destination of 26214400 bytes, each
\* written from the response for its offset.
C15_TwentyFiveMiB ==
    (/\ total_size = 26214400
     /\ requested_threads = 4
     /\ ~mandatory_use
     /\ cpu_cores >= 2
     /\ supports_chunked
     /\ actual_threads # 0) =>
        /\ actual_threads = 2
        /\ chunks = << <<0, 13107199>>, <<13107200, 26214399>> >>
        /\ pc = "done" =>
              /\ result = [kind |-> "ok", threads_used |-> 2, err |-> "none"]
              /\ fs[original_path].exists
              /\ fs[original_path].len = 26214400
              /\ Slices(chunks) = chunks
              /\ \A i \in DOMAIN workers :
                    workers[i].st = "ok" /\ workers[i].filled = Span(chunks[i])

C15_Witness ==
    /\ pc = "done"
    /\ total_size = 26214400
    /\ requested_threads = 4
    /\ ~mandatory_use
    /\ cpu_cores = 2
    /\ result.threads_used = 2
    /\ Len(workers) = 2

\* C19: extract_filename returns for every input (unparsable, empty or root
\* path, path segments, percent escapes) a name that is not empty, contains a
\* '.' and holds no control character.
C19_FilenameTotal ==
    name_in.called =>
        /\ name_out # << >>
        /\ Contains(name_out, ".")
        /\ \A k \in DOMAIN name_out : name_out[k] \notin ControlChars \cup {InvalidByte}

\* The last segment is an escaped control character: it is replaced and the
\* default extension added.
C19_Witness ==
    /\ name_in.called
    /\ name_in.parsed
    /\ name_in.path = <<"/", "%01">>
    /\ name_out = <<"_">> \o DotBin

AllWorkersOk == \A i \in DOMAIN workers : workers[i].st = "ok"
Flushed == Record("flush", temp_path) \in ops
Renamed == Record("rename", original_path) \in ops

\* C21: in a Parallel download the map is flushed only after every chunk worker
\* has returned success, the rename happens only after the flush and the passed
\* size verification, and nothing writes to the temp file, the map or the
\* destination after the rename.
C21_PublishOrder ==
    /\ [](supports_chunked =>
            /\ Flushed => AllWorkersOk
            /\ pc = "publish" =>
                  (Flushed /\ validate_file(fs, temp_path, total_size) = "Ok")
            /\ Renamed => (pc = "done" /\ Flushed /\ AllWorkersOk))
    /\ [][(supports_chunked /\ ~Renamed /\ Renamed') => pc = "publish"]_vars
    /\ [][(supports_chunked /\ Renamed) =>
            (ops' = ops /\ fs' = fs /\ workers' = workers)]_vars

\* A published download of two chunks.
C21_Witness ==
    /\ supports_chunked
    /\ Renamed
    /\ Flushed
    /\ Len(workers) = 2
    /\ fs[original_path].exists

\* C22: once download_file has left the Parallel step, towards Verifying or
\* towards Failed, every chunk worker has terminated and no worker changes
\* state or writes any more.
C22_WorkersJoined ==
    /\ []((workers # << >> /\ pc # "parallel") =>
            \A i \in DOMAIN workers : workers[i].st \in Terminal)
    /\ [][(workers # << >> /\ pc # "parallel") =>
            (workers' = workers /\ (Record("write", temp_path) \in ops' =>
                                      Record("write", temp_path) \in ops))]_vars

\* A failed download whose other chunk ran to its end after the failure.
C22_Witness ==
    /\ pc = "failed"
    /\ full
    /\ \E i, j \in DOMAIN workers :
          /\ workers[i].st = "err"
          /\ workers[i].err = "RequestError"
          /\ workers[j].st = "ok"
          /\ workers[j].gets > 1

\* C23: whenever an attempt of download_chunk has ended (the next attempt is
\* about to start or the worker has returned), every buffer the worker acquired
\* has been passed to put.
C23_BufferReleasedEveryAttempt ==
    \A i \in DOMAIN workers :
        workers[i].st \in {"send", "ok", "err"} =>
            workers[i].released = workers[i].acquired

\* C24: every byte an attempt writes lands at the slice position of its body
\* offset, a chunk that succeeded holds exactly the body of its successful
\* attempt, and after a successful download every slice holds its whole range.
C24_AttemptsRestartAtZero ==
    /\ \A i \in DOMAIN workers :
          /\ \A s \in workers[i].slice : s.shift = 0
          /\ workers[i].st = "ok" =>
                workers[i].slice = {[lo |-> 0, hi |-> Span(chunks[i]) - 1,
                                     attempt |-> workers[i].attempt, shift |-> 0]}
    /\ (pc = "done" /\ supports_chunked) => AllWorkersOk

\* A download that succeeded on the third attempt of a chunk of two bytes.
C24_Witness ==
    /\ pc = "done"
    /\ Len(workers) = 1
    /\ workers[1].attempt = 2
    /\ Span(chunks[1]) = 2
    /\ workers[1].filled = 2

\* C25: a ranged response with more bytes than the chunk's span ends the attempt
\* as a failed attempt; neither the worker nor download_file aborts abnormally.
C25_OverlongBodyFailsAttempt ==
    /\ \A i \in DOMAIN workers : workers[i].st # "panicked"
    /\ result.err # "copy_from_slice"

\* C26: a successful Parallel download of total_size >= 1 reports as
\* threads_used the number of chunks of the plan, which is the number of chunk
\* workers run, whatever requested_threads and the force flag are.
C26_ThreadsUsedIsChunkCount ==
    (pc = "done" /\ supports_chunked /\ total_size >= 1) =>
        /\ Len(workers) = Len(chunks)
        /\ result.threads_used = Len(chunks)

\* C27: for total_size >= 1 the chunk lengths of the plan never decrease in plan
\* order, any two differ by at most 1, every chunk but the last has length
\* max(MIN_CHUNK_SIZE, remaining / (n - i)) clipped to remaining, and the last
\* has the remaining bytes.
C27_PlanBalanced ==
    (plan_in.called /\ plan_in.total >= 1) =>
        LET n == Len(plan_out)
            len(i) == plan_out[i][2] - plan_out[i][1] + 1
            remaining(i) == plan_in.total - plan_out[i][1]
            avg(i) == remaining(i) \div (n - (i - 1))
            floor(i) == IF avg(i) >= MIN_CHUNK_SIZE THEN avg(i) ELSE MIN_CHUNK_SIZE
        IN  /\ \A i \in 1..(n - 1) : len(i) <= len(i + 1)
            /\ \A i, j \in 1..n : len(i) - len(j) <= 1
            /\ \A i \in 1..(n - 1) :
                  len(i) = IF floor(i) <= remaining(i) THEN floor(i) ELSE remaining(i)
            /\ len(n) = remaining(n)

\* A plan of four chunks of two lengths: 9 bytes as 2, 2, 2, 3.
C27_Witness ==
    /\ plan_in.called
    /\ plan_in.total = 9
    /\ Len(plan_out) = 4
    /\ plan_out[1] = <<0, 1>>
    /\ plan_out[4] = <<6, 8>>

\* C28: the pool never holds more than its capacity of idle buffers, every idle
\* buffer has length buffer_size, and no buffer is idle while a thread owns it,
\* idle twice, or owned by two threads, in any interleaving of get and put.
C28_PoolOwnership ==
    /\ Len(pool_q) <= pool_size
    /\ \A k \in DOMAIN pool_q : pool_q[k].len = buffer_size
    /\ \A k, l \in DOMAIN pool_q : k # l => pool_q[k].id # pool_q[l].id
    /\ \A w \in DOMAIN pool_held :
          pool_held[w] # NoBuffer =>
              /\ \A k \in DOMAIN pool_q : pool_q[k].id # pool_held[w].id
              /\ \A v \in DOMAIN pool_held : v # w => pool_held[v].id # pool_held[w].id

\* A full pool while a thread owns another buffer, which it has truncated.
C28_Witness ==
    /\ Len(pool_q) = pool_size
    /\ \E w \in DOMAIN pool_held :
          pool_held[w] # NoBuffer /\ pool_held[w].len < buffer_size

\* C29: every download_file operation, its requests and reads completing,
\* eventually reaches Done or Failed.
C29_Terminates == <>(pc \in {"done", "failed"})

\* C30: the name extract_filename returns holds no control character and none
\* of the characters / \ : *, whether it comes from the last path segment or
\* from the host.
C30_NameSafe ==
    name_in.called => \A k \in DOMAIN name_out : name_out[k] \notin Replaced

\* C31: the error of a chunk that exhausted its retries identifies the chunk:
\* two different chunks that exhaust their retries return different errors.
C31_ExhaustedErrorNamesChunk ==
    \A i, j \in DOMAIN workers :
        (/\ workers[i].st = "err" /\ workers[i].gets = MAX_RETRIES
         /\ workers[j].st = "err" /\ workers[j].gets = MAX_RETRIES
         /\ workers[i].err = workers[j].err
         /\ workers[i].err \notin {"RequestError", "Io", "BufferPoolFull"}) => i = j

\* C32: two concurrent download_file calls with different destinations in one
\* directory have different temp paths, and no file is created, resized or
\* written by both.
C32_TempFilesDistinct ==
    /\ \A o, q \in DOMAIN pair_op :
          (o # q /\ pair_op[o].temp # << >> /\ pair_op[q].temp # << >>) =>
              pair_op[o].temp # pair_op[q].temp
    /\ \A p \in PairPaths : Cardinality(pair_writers[p]) <= 1

\* C33: c_download_file returns 0 exactly when download_file succeeded; with 0
\* the result has a null error_msg, live save_path and file_name and the
\* threads_used of the DownloadResult; with 1 it has a live error_msg,
\* threads_used 0 and null save_path and file_name. After
\* free_c_download_result the three pointers are null and no call of it frees
\* anything twice.
C33_CDownloadResult ==
    /\ c_download.state # "none" =>
          /\ c_download.ret \in {0, 1}
          /\ c_download.ret = 0 <=> c_download.ok
    /\ (c_download.state = "returned" /\ c_download.ret = 0) =>
          /\ c_download.error_msg = Null
          /\ c_download.save_path \in c_heap.live
          /\ c_download.file_name \in c_heap.live
          /\ c_download.save_path # c_download.file_name
          /\ c_download.threads_used = c_download.threads
    /\ (c_download.state = "returned" /\ c_download.ret = 1) =>
          /\ c_download.error_msg \in c_heap.live
          /\ c_download.threads_used = 0
          /\ c_download.save_path = Null
          /\ c_download.file_name = Null
    /\ c_download.state = "freed" =>
          /\ c_download.save_path = Null
          /\ c_download.file_name = Null
          /\ c_download.error_msg = Null
    /\ ~c_heap.double_free

\* A successful result that was freed: its two strings are gone.
C33_Witness ==
    /\ c_download.state = "freed"
    /\ c_download.ret = 0
    /\ c_download.threads_used = 2
    /\ {1, 2} \subseteq c_heap.freed
    /\ c_heap.live = {}

\* C34: after a POST function returned 0 with body_type = 1, body_bytes points to
\* a live buffer until free_c_res_post is called.
C34_BodyBytesLive ==
    (c_post.state = "returned" /\ c_post.ret = 0 /\ c_post.body_type = 1) =>
        c_post.body_bytes \in c_heap.live

\* C35: every job submitted to a ThreadPool runs at most once, on one worker,
\* its result arrives at most once and only on the receiver its submit
\* returned, and a job whose receiver the caller dropped leaves its worker
\* serving: no worker thread ends other than by Terminate.
C35_JobsServedOnce ==
    /\ \A j \in DOMAIN tp_jobs :
          /\ tp_jobs[j].runs <= 1
          /\ Cardinality(tp_jobs[j].by) = tp_jobs[j].runs
          /\ Len(tp_jobs[j].received) <= tp_jobs[j].runs
          /\ \A k \in DOMAIN tp_jobs[j].received : tp_jobs[j].received[k] = j
    /\ \A w \in DOMAIN tp_workers :
          /\ tp_workers[w].st # "panicked"
          /\ tp_workers[w].st = "exited" => tp_workers[w].terminates = 1

\* C36: once drop has begun it returns, with every worker out of its loop after
\* exactly one Terminate and every submitted job executed.
C36_DropShutsDown ==
    (tp_pool.state \in {"sending", "joining"}) ~>
        (/\ tp_pool.state = "dropped"
         /\ tp_pool.sent = tp_pool.size
         /\ tp_pool.joined = tp_pool.size
         /\ tp_chan = << >>
         /\ \A w \in DOMAIN tp_workers :
               tp_workers[w].st = "exited" /\ tp_workers[w].terminates = 1
         /\ \A j \in DOMAIN tp_jobs : tp_jobs[j].runs = 1)

\* C37: after any sequence of operations the list is well formed: len is the
\* number of nodes met from head through next and from tail through prev,
\* head.prev and tail.next are null, x.next.prev = x for every node that has a
\* next, and head is null exactly when tail is null exactly when len = 0.
C37_WellFormed ==
    /\ dll.len = Len(FromHead(dll))
    /\ dll.len = Len(FromTail(dll))
    /\ FromTail(dll) = Reversed(FromHead(dll))
    /\ dll.len = Cardinality(DOMAIN dll.nodes)
    /\ dll.head # Null => (dll.head \in DOMAIN dll.nodes /\ dll.nodes[dll.head].prev = Null)
    /\ dll.tail # Null => (dll.tail \in DOMAIN dll.nodes /\ dll.nodes[dll.tail].next = Null)
    /\ \A x \in DOMAIN dll.nodes :
          dll.nodes[x].next # Null =>
              /\ dll.nodes[x].next \in DOMAIN dll.nodes
              /\ dll.nodes[dll.nodes[x].next].prev = x
    /\ (dll.head = Null) <=> (dll.tail = Null)
    /\ (dll.head = Null) <=> (dll.len = 0)

\* A node was taken out of the middle of a full list.
C37_Witness ==
    /\ dll_ret.op = "remove"
    /\ dll_ret.got = Some(TRUE)
    /\ dll.len = 2
    /\ dll.head = 1
    /\ dll.tail = 3

\* C38: the head-to-tail contents of the list are those of the sequence, and
\* every operation returns what the sequence operation returns.
C38_RefinesSequence ==
    /\ Contents(dll) = dll_model
    /\ dll_ret.got = dll_ret.expected

\* remove took the first of two equal elements and left the second.
C38_Witness ==
    /\ dll_ret.op = "remove"
    /\ dll_ret.got = Some(TRUE)
    /\ dll_model = <<2, 1>>
    /\ Contents(dll) = <<2, 1>>
    /\ dll.head # 1

====
